---- MODULE Spec2Model ----
(***************************************************************************)
(* lyft/codemirror-promql: the PromQL type resolver (getType), the         *)
(* vector-matching resolver (buildVectorMatching) and the editor extension *)
(* holder (PromQLExtension).                                               *)
(*                                                                         *)
(* A syntax node is a record [kind, from, to, text, children]: kind is the *)
(* name of the lezer-promql term (node.type.id), [from, to) its range in   *)
(* the document, children its child nodes in document order.  text is the  *)
(* token text of a leaf, kept so that properties can name the expected     *)
(* label independently of the document slice the code takes.  The document *)
(* is a sequence of one-character strings.                                 *)
(***************************************************************************)
EXTENDS Integers, Sequences, FiniteSets, TLC

VARIABLES
  tree,              \* root SyntaxNode of the parsed expression
  doc,               \* EditorState document text
  promqlFunctions,   \* the function table object
  heap,              \* label arrays created by buildVectorMatching, by address
  returned,          \* the results handed back to the caller, oldest first
  callLimit,         \* how many resolver calls this session makes
  complete,          \* PromQLExtension.complete
  lint,              \* PromQLExtension.lint
  enableCompletion,  \* PromQLExtension.enableCompletion
  enableLinter,      \* PromQLExtension.enableLinter
  extensions,        \* the extensions asExtension has returned, oldest first
  lastRequest,       \* the last completion request an autocomplete callback served
  installed,         \* the strategy the last setComplete (or the constructor) made
  lastActivate       \* the arguments of the last activateCompletion and activateLinter

resolverVars == <<tree, doc, promqlFunctions, heap, returned, callLimit>>
extensionVars == <<complete, lint, enableCompletion, enableLinter, extensions,
                   lastRequest, installed, lastActivate>>
vars == <<tree, doc, promqlFunctions, heap, returned, callLimit,
          complete, lint, enableCompletion, enableLinter, extensions,
          lastRequest, installed, lastActivate>>

----------------------------------------------------------------------------
(* Bounds *)

MaxLabels == 2       \* labels in one on/ignoring/group_left/group_right list
MaxNest == 1         \* wrappers (paren, unary, offset) around an atom
MaxCalls == 2        \* resolver calls in one re-entrancy session
MaxSetComplete == 2  \* setComplete calls on one PromQLExtension
MaxExtensions == 2   \* asExtension calls on one PromQLExtension

----------------------------------------------------------------------------
(* ValueType, the function table, getFunction *)

ValueType == {"none", "vector", "scalar", "matrix", "string"}

PromQLFunctionTable ==
     ("Abs" :> [name |-> "abs", argTypes |-> <<"vector">>, variadic |-> 0, returnType |-> "vector"])
  @@ ("Absent" :> [name |-> "absent", argTypes |-> <<"vector">>, variadic |-> 0, returnType |-> "vector"])
  @@ ("AbsentOverTime" :> [name |-> "absent_over_time", argTypes |-> <<"matrix">>, variadic |-> 0, returnType |-> "vector"])
  @@ ("AvgOverTime" :> [name |-> "avg_over_time", argTypes |-> <<"matrix">>, variadic |-> 0, returnType |-> "vector"])
  @@ ("Ceil" :> [name |-> "ceil", argTypes |-> <<"vector">>, variadic |-> 0, returnType |-> "vector"])
  @@ ("Changes" :> [name |-> "changes", argTypes |-> <<"matrix">>, variadic |-> 0, returnType |-> "vector"])
  @@ ("ClampMax" :> [name |-> "clamp_max", argTypes |-> <<"vector", "scalar">>, variadic |-> 0, returnType |-> "vector"])
  @@ ("ClampMin" :> [name |-> "clamp_min", argTypes |-> <<"vector", "scalar">>, variadic |-> 0, returnType |-> "vector"])
  @@ ("CountOverTime" :> [name |-> "count_over_time", argTypes |-> <<"matrix">>, variadic |-> 0, returnType |-> "vector"])
  @@ ("DaysInMonth" :> [name |-> "days_in_month", argTypes |-> <<"vector">>, variadic |-> 1, returnType |-> "vector"])
  @@ ("DayOfMonth" :> [name |-> "day_of_month", argTypes |-> <<"vector">>, variadic |-> 1, returnType |-> "vector"])
  @@ ("DayOfWeek" :> [name |-> "day_of_week", argTypes |-> <<"vector">>, variadic |-> 1, returnType |-> "vector"])
  @@ ("Delta" :> [name |-> "delta", argTypes |-> <<"matrix">>, variadic |-> 0, returnType |-> "vector"])
  @@ ("Deriv" :> [name |-> "deriv", argTypes |-> <<"matrix">>, variadic |-> 0, returnType |-> "vector"])
  @@ ("Exp" :> [name |-> "exp", argTypes |-> <<"vector">>, variadic |-> 0, returnType |-> "vector"])
  @@ ("Floor" :> [name |-> "floor", argTypes |-> <<"vector">>, variadic |-> 0, returnType |-> "vector"])
  @@ ("HistogramQuantile" :> [name |-> "histogram_quantile", argTypes |-> <<"scalar", "vector">>, variadic |-> 0, returnType |-> "vector"])
  @@ ("HoltWinters" :> [name |-> "holt_winters", argTypes |-> <<"matrix", "scalar", "scalar">>, variadic |-> 0, returnType |-> "vector"])
  @@ ("Hour" :> [name |-> "hour", argTypes |-> <<"vector">>, variadic |-> 1, returnType |-> "vector"])
  @@ ("Idelta" :> [name |-> "idelta", argTypes |-> <<"matrix">>, variadic |-> 0, returnType |-> "vector"])
  @@ ("Increase" :> [name |-> "increase", argTypes |-> <<"matrix">>, variadic |-> 0, returnType |-> "vector"])
  @@ ("Irate" :> [name |-> "irate", argTypes |-> <<"matrix">>, variadic |-> 0, returnType |-> "vector"])
  @@ ("LabelReplace" :> [name |-> "label_replace", argTypes |-> <<"vector", "string", "string", "string", "string">>, variadic |-> 0, returnType |-> "vector"])
  @@ ("LabelJoin" :> [name |-> "label_join", argTypes |-> <<"vector", "string", "string", "string">>, variadic |-> -1, returnType |-> "vector"])
  @@ ("Ln" :> [name |-> "ln", argTypes |-> <<"vector">>, variadic |-> 0, returnType |-> "vector"])
  @@ ("Log10" :> [name |-> "log10", argTypes |-> <<"vector">>, variadic |-> 0, returnType |-> "vector"])
  @@ ("Log2" :> [name |-> "log2", argTypes |-> <<"vector">>, variadic |-> 0, returnType |-> "vector"])
  @@ ("MaxOverTime" :> [name |-> "max_over_time", argTypes |-> <<"matrix">>, variadic |-> 0, returnType |-> "vector"])
  @@ ("MinOverTime" :> [name |-> "min_over_time", argTypes |-> <<"matrix">>, variadic |-> 0, returnType |-> "vector"])
  @@ ("Minute" :> [name |-> "minute", argTypes |-> <<"vector">>, variadic |-> 1, returnType |-> "vector"])
  @@ ("Month" :> [name |-> "month", argTypes |-> <<"vector">>, variadic |-> 1, returnType |-> "vector"])
  @@ ("PredictLinear" :> [name |-> "predict_linear", argTypes |-> <<"matrix", "scalar">>, variadic |-> 0, returnType |-> "vector"])
  @@ ("QuantileOverTime" :> [name |-> "quantile_over_time", argTypes |-> <<"scalar", "matrix">>, variadic |-> 0, returnType |-> "vector"])
  @@ ("Rate" :> [name |-> "rate", argTypes |-> <<"matrix">>, variadic |-> 0, returnType |-> "vector"])
  @@ ("Resets" :> [name |-> "resets", argTypes |-> <<"matrix">>, variadic |-> 0, returnType |-> "vector"])
  @@ ("Round" :> [name |-> "round", argTypes |-> <<"vector", "scalar">>, variadic |-> 1, returnType |-> "vector"])
  @@ ("Scalar" :> [name |-> "scalar", argTypes |-> <<"vector">>, variadic |-> 0, returnType |-> "scalar"])
  @@ ("Sort" :> [name |-> "sort", argTypes |-> <<"vector">>, variadic |-> 0, returnType |-> "vector"])
  @@ ("SortDesc" :> [name |-> "sort_desc", argTypes |-> <<"vector">>, variadic |-> 0, returnType |-> "vector"])
  @@ ("Sqrt" :> [name |-> "sqrt", argTypes |-> <<"vector">>, variadic |-> 0, returnType |-> "vector"])
  @@ ("StddevOverTime" :> [name |-> "stddev_over_time", argTypes |-> <<"matrix">>, variadic |-> 0, returnType |-> "vector"])
  @@ ("StdvarOverTime" :> [name |-> "stdvar_over_time", argTypes |-> <<"matrix">>, variadic |-> 0, returnType |-> "vector"])
  @@ ("SumOverTime" :> [name |-> "sum_over_time", argTypes |-> <<"matrix">>, variadic |-> 0, returnType |-> "vector"])
  @@ ("Time" :> [name |-> "time", argTypes |-> <<>>, variadic |-> 0, returnType |-> "scalar"])
  @@ ("Timestamp" :> [name |-> "timestamp", argTypes |-> <<"vector">>, variadic |-> 0, returnType |-> "vector"])
  @@ ("Vector" :> [name |-> "vector", argTypes |-> <<"scalar">>, variadic |-> 0, returnType |-> "vector"])
  @@ ("Year" :> [name |-> "year", argTypes |-> <<"vector">>, variadic |-> 1, returnType |-> "vector"])

\* The kinds tagged 'functionName' in promQLSyntax's styleTags.
functionName ==
  { "Abs", "Absent", "AbsentOverTime", "AvgOverTime", "Ceil", "Changes",
    "ClampMax", "ClampMin", "CountOverTime", "DaysInMonth", "DayOfMonth", "DayOfWeek",
    "Delta", "Deriv", "Exp", "Floor", "HistogramQuantile", "HoltWinters",
    "Hour", "Idelta", "Increase", "Irate", "LabelReplace", "LabelJoin",
    "Ln", "Log10", "Log2", "MaxOverTime", "MinOverTime", "Minute",
    "Month", "PredictLinear", "QuantileOverTime", "Rate", "Resets", "Round",
    "Scalar", "Sort", "SortDesc", "Sqrt", "StddevOverTime", "StdvarOverTime",
    "SumOverTime", "Time", "Timestamp", "Vector", "Year" }

Undefined == [undefined |-> TRUE]

\* A table without the Time entry.
getFunctionMissingTime(id) ==
  IF id \in DOMAIN promqlFunctions /\ id # "Time" THEN promqlFunctions[id] ELSE Undefined

getFunction(id) ==
  IF id \in DOMAIN promqlFunctions THEN promqlFunctions[id] ELSE Undefined

----------------------------------------------------------------------------
(* SyntaxNode *)

Null == [kind |-> "null"]

\* node.firstChild; with node?.firstChild an absent node gives an absent child.
firstChild(node) ==
  IF node = Null THEN Null
  ELSE IF Len(node.children) = 0 THEN Null ELSE node.children[1]

lastChild(node) ==
  IF node = Null THEN Null
  ELSE IF Len(node.children) = 0 THEN Null ELSE node.children[Len(node.children)]

----------------------------------------------------------------------------
(* path-finder: walkThrough, retrieveAllRecursiveNodes, containsAtLeastOneChild *)

RECURSIVE FirstOfKind(_, _)
FirstOfKind(cs, kind) ==
  IF Len(cs) = 0 THEN Null
  ELSE IF Head(cs).kind = kind THEN Head(cs) ELSE FirstOfKind(Tail(cs), kind)

RECURSIVE walkThrough(_, _)
walkThrough(node, path) ==
  IF node = Null THEN Null
  ELSE IF Len(path) = 0 THEN node
  ELSE walkThrough(FirstOfKind(node.children, Head(path)), Tail(path))

RECURSIVE ItemsIn(_, _, _)
ItemsIn(cs, recursiveNode, leaf) ==
  IF Len(cs) = 0 THEN <<>>
  ELSE (IF Head(cs).kind = leaf THEN <<Head(cs)>>
        ELSE IF Head(cs).kind = recursiveNode
             THEN ItemsIn(Head(cs).children, recursiveNode, leaf)
             ELSE <<>>)
       \o ItemsIn(Tail(cs), recursiveNode, leaf)

RECURSIVE ListsIn(_, _, _)
ListsIn(cs, recursiveNode, leaf) ==
  IF Len(cs) = 0 THEN <<>>
  ELSE (IF Head(cs).kind = recursiveNode
        THEN ItemsIn(Head(cs).children, recursiveNode, leaf)
        ELSE <<>>)
       \o ListsIn(Tail(cs), recursiveNode, leaf)

retrieveAllRecursiveNodes(parentNode, recursiveNode, leaf) ==
  IF parentNode = Null THEN <<>>
  ELSE ListsIn(parentNode.children, recursiveNode, leaf)

containsAtLeastOneChild(node, kinds) ==
  IF node = Null THEN FALSE
  ELSE \E i \in 1..Len(node.children) : node.children[i].kind \in kinds

----------------------------------------------------------------------------
(* getType *)

\* The outcome of reading .returnType of undefined.
TypeError == "TypeError"

funcNode(node) == firstChild(firstChild(node))

binaryType(lt, rt) ==
  IF lt = "scalar" /\ rt = "scalar" THEN "scalar" ELSE "vector"

RECURSIVE getType(_)
getType(node) ==
  IF node = Null THEN "none"
  ELSE CASE node.kind = "Expr" -> getType(firstChild(node))
       [] node.kind = "AggregateExpr" -> "vector"
       [] node.kind = "VectorSelector" -> "vector"
       [] node.kind = "OffsetExpr" -> getType(firstChild(node))
       [] node.kind = "StringLiteral" -> "string"
       [] node.kind = "NumberLiteral" -> "scalar"
       [] node.kind = "MatrixSelector" -> "matrix"
       [] node.kind = "SubqueryExpr" -> "matrix"
       [] node.kind = "ParenExpr" -> getType(walkThrough(node, <<"Expr">>))
       [] node.kind = "UnaryExpr" -> getType(walkThrough(node, <<"Expr">>))
       [] node.kind = "BinaryExpr" ->
            LET lt == getType(firstChild(node)) IN
            IF lt = TypeError THEN TypeError
            ELSE LET rt == getType(lastChild(node)) IN
                 IF rt = TypeError THEN TypeError ELSE binaryType(lt, rt)
       [] node.kind = "FunctionCall" ->
            IF funcNode(node) = Null THEN "none"
            ELSE LET f == getFunction(funcNode(node).kind) IN
                 IF f = Undefined THEN TypeError ELSE f.returnType
       [] OTHER -> "none"

----------------------------------------------------------------------------
(* buildVectorMatching *)

CardOneToOne == "one-to-one"
CardManyToOne == "many-to-one"
CardOneToMany == "one-to-many"
CardManyToMany == "many-to-many"

NullMatching == [null |-> TRUE]

\* The guard testing only for an absent node.
notBinaryOnlyAbsent(binaryNode) == binaryNode = Null

notBinary(binaryNode) == binaryNode = Null \/ binaryNode.kind # "BinaryExpr"

sliceDoc(d, from, to) == SubSeq(d, from + 1, to)

\* One array shared by every record.
NewArrayShared(h) == 1

\* The address of the array the next [] literal creates.
NewArray(h) == Len(h) + 1

Alloc(h) == Append(h, <<>>)

\* result.<list>.push(state.sliceDoc(label.from, label.to)) for each label
PushSlices(h, a, d, nodes) ==
  [h EXCEPT ![a] = @ \o [i \in 1..Len(nodes) |-> sliceDoc(d, nodes[i].from, nodes[i].to)]]

on(binaryNode) ==
  walkThrough(binaryNode, <<"BinModifier", "GroupModifiers", "OnOrIgnoring", "On">>)

ignoring(binaryNode) ==
  walkThrough(binaryNode, <<"BinModifier", "GroupModifiers", "OnOrIgnoring", "Ignoring">>)

\* The include-label path taken for the matching labels.
labelsFromMaybe(binaryNode) ==
  retrieveAllRecursiveNodes(
    walkThrough(binaryNode, <<"BinModifier", "GroupModifiers", "MaybeGroupingLabels", "GroupingLabels">>),
    "GroupingLabelList", "GroupingLabel")

labels(binaryNode) ==
  retrieveAllRecursiveNodes(
    walkThrough(binaryNode, <<"BinModifier", "GroupModifiers", "OnOrIgnoring", "GroupingLabels">>),
    "GroupingLabelList", "GroupingLabel")

groupLeft(binaryNode) ==
  walkThrough(binaryNode, <<"BinModifier", "GroupModifiers", "GroupLeft">>)

groupRight(binaryNode) ==
  walkThrough(binaryNode, <<"BinModifier", "GroupModifiers", "GroupRight">>)

\* The matching-label path taken for the include labels.
includeLabelsFromOn(binaryNode) ==
  retrieveAllRecursiveNodes(
    walkThrough(binaryNode, <<"BinModifier", "GroupModifiers", "OnOrIgnoring", "GroupingLabels">>),
    "GroupingLabelList", "GroupingLabel")

includeLabels(binaryNode) ==
  retrieveAllRecursiveNodes(
    walkThrough(binaryNode, <<"BinModifier", "GroupModifiers", "MaybeGroupingLabels", "GroupingLabels">>),
    "GroupingLabelList", "GroupingLabel")

isSetOperator(binaryNode) ==
  containsAtLeastOneChild(binaryNode, {"And", "Or", "Unless"})

\* The set-operator default applied without looking at the cardinality.
cardSetOperatorWins(binaryNode) ==
  IF isSetOperator(binaryNode) THEN CardManyToMany
  ELSE IF groupLeft(binaryNode) # Null THEN CardManyToOne
  ELSE IF groupRight(binaryNode) # Null THEN CardOneToMany
  ELSE CardOneToOne

card(binaryNode) ==
  LET grouped == IF groupLeft(binaryNode) # Null \/ groupRight(binaryNode) # Null
                 THEN (IF groupLeft(binaryNode) # Null THEN CardManyToOne ELSE CardOneToMany)
                 ELSE CardOneToOne
  IN IF isSetOperator(binaryNode) /\ grouped = CardOneToOne THEN CardManyToMany ELSE grouped

\* state is [doc, heap]; the value is the returned record (or null), the heap
\* after the call, and how many times the call read the document.
buildVectorMatching(state, binaryNode) ==
  IF notBinary(binaryNode)
  THEN [result |-> NullMatching, heap |-> state.heap, reads |-> 0]
  ELSE LET a1 == NewArray(state.heap)
           h1 == Alloc(state.heap)
           a2 == NewArray(h1)
           h2 == Alloc(h1)
           onOrIgnoring == on(binaryNode) # Null \/ ignoring(binaryNode) # Null
           ml == IF onOrIgnoring THEN labels(binaryNode) ELSE <<>>
           h3 == PushSlices(h2, a1, state.doc, ml)
           grouping == groupLeft(binaryNode) # Null \/ groupRight(binaryNode) # Null
           il == IF grouping THEN includeLabels(binaryNode) ELSE <<>>
           h4 == PushSlices(h3, a2, state.doc, il)
       IN [result |-> [card |-> card(binaryNode),
                       matchingLabels |-> a1,
                       on |-> onOrIgnoring /\ on(binaryNode) # Null,
                       include |-> a2],
           heap |-> h4,
           reads |-> Len(ml) + Len(il)]

----------------------------------------------------------------------------
(* The parser's output: a raw tree of tokens, laid out over the document.   *)
(* A token of kind "_" is text the parser keeps no node for (blanks and     *)
(* punctuation): it takes room in the document and is left out of the tree. *)

Tok(kind, text) == [kind |-> kind, text |-> text, children |-> <<>>]
N(kind, children) == [kind |-> kind, text |-> <<>>, children |-> children]
Gap(text) == Tok("_", text)
Sp == Gap(<<" ">>)

RECURSIVE RawLen(_), RawLenSeq(_)
RawLen(r) == IF Len(r.children) = 0 THEN Len(r.text) ELSE RawLenSeq(r.children)
RawLenSeq(cs) == IF Len(cs) = 0 THEN 0 ELSE RawLen(Head(cs)) + RawLenSeq(Tail(cs))

RECURSIVE RawDoc(_), RawDocSeq(_)
RawDoc(r) == IF Len(r.children) = 0 THEN r.text ELSE RawDocSeq(r.children)
RawDocSeq(cs) == IF Len(cs) = 0 THEN <<>> ELSE RawDoc(Head(cs)) \o RawDocSeq(Tail(cs))

RECURSIVE Layout(_, _), LayoutSeq(_, _)
Layout(r, off) ==
  [kind |-> r.kind, from |-> off, to |-> off + RawLen(r), text |-> r.text,
   children |-> LayoutSeq(r.children, off)]
LayoutSeq(cs, off) ==
  IF Len(cs) = 0 THEN <<>>
  ELSE (IF Head(cs).kind = "_" THEN <<>> ELSE <<Layout(Head(cs), off)>>)
       \o LayoutSeq(Tail(cs), off + RawLen(Head(cs)))

\* Atoms
NumberLit == N("Expr", <<Tok("NumberLiteral", <<"1">>)>>)
VecSel(name) ==
  N("Expr", <<N("VectorSelector", <<N("MetricIdentifier", <<Tok("Identifier", name)>>)>>)>>)
MatSel ==
  N("Expr", <<N("MatrixSelector",
     <<VecSel(<<"a">>), Gap(<<"[">>), Tok("Duration", <<"5", "m">>), Gap(<<"]">>)>>)>>)
StrLit == N("Expr", <<Tok("StringLiteral", <<"'", "x", "'">>)>>)
Agg ==
  N("Expr", <<N("AggregateExpr",
     <<N("AggregateOp", <<Tok("Sum", <<"s", "u", "m">>)>>),
       N("FunctionCallBody", <<Gap(<<"(">>), N("FunctionCallArgs", <<VecSel(<<"a">>)>>), Gap(<<")">>)>>)>>)>>)
Subq ==
  N("Expr", <<N("SubqueryExpr",
     <<VecSel(<<"a">>), Gap(<<"[">>), Tok("Duration", <<"5", "m">>), Gap(<<":", "]">>)>>)>>)
\* The parser's error node (the term named with the warning sign).
ErrNode == Tok("Err", <<"?">>)
ErrExpr == N("Expr", <<ErrNode>>)

Atoms == {NumberLit, VecSel(<<"a">>), MatSel, StrLit, Agg, Subq, ErrNode, ErrExpr}

\* Wrappers
Paren(e) == N("Expr", <<N("ParenExpr", <<Gap(<<"(">>), e, Gap(<<")">>)>>)>>)
Unary(e) == N("Expr", <<N("UnaryExpr", <<N("UnaryOp", <<Tok("Sub", <<"-">>)>>), e>>)>>)
Offset(e) ==
  N("Expr", <<N("OffsetExpr",
     <<e, Sp, Tok("Offset", <<"o", "f", "f", "s", "e", "t">>), Sp, Tok("Duration", <<"5", "m">>)>>)>>)

RECURSIVE Nested(_)
Nested(d) ==
  IF d = 0 THEN Atoms
  ELSE LET inner == Nested(d - 1) IN
       inner \cup {Paren(e) : e \in inner} \cup {Unary(e) : e \in inner}
             \cup {Offset(e) : e \in inner}

\* Function calls
FnCall(id) ==
  N("Expr", <<N("FunctionCall",
     <<N("FunctionIdentifier", <<Tok(id, <<"f", "n">>)>>),
       N("FunctionCallBody", <<Gap(<<"(", ")">>)>>)>>)>>)
FnCallArg(id, arg) ==
  N("Expr", <<N("FunctionCall",
     <<N("FunctionIdentifier", <<Tok(id, <<"f", "n">>)>>),
       N("FunctionCallBody", <<Gap(<<"(">>), N("FunctionCallArgs", <<arg>>), Gap(<<")">>)>>)>>)>>)
\* A call whose identifier is missing, and one with nothing under it.
FnCallNoId ==
  N("Expr", <<N("FunctionCall",
     <<N("FunctionIdentifier", <<>>), N("FunctionCallBody", <<Gap(<<"(", ")">>)>>)>>)>>)
FnCallEmpty == N("Expr", <<N("FunctionCall", <<>>)>>)

\* Kinds the function table has no entry for: the error node, and Clamp, a
\* function of a later grammar.
UnknownFunctionKinds == {"Err", "Clamp"}

FunctionCalls ==
  {FnCall(id) : id \in functionName \cup UnknownFunctionKinds}
    \cup {FnCallArg("Rate", MatSel), FnCallArg("Scalar", VecSel(<<"a">>)),
          FnCallArg("Clamp", VecSel(<<"a">>)), FnCallNoId, FnCallEmpty}

\* Binary expressions
OpTok(op) ==
  CASE op = "Add" -> Tok("Add", <<"+">>)
    [] op = "And" -> Tok("And", <<"a", "n", "d">>)
    [] op = "Or" -> Tok("Or", <<"o", "r">>)
    [] op = "Unless" -> Tok("Unless", <<"u", "n", "l", "e", "s", "s">>)

Ops == {"Add", "And", "Or", "Unless"}

NoModifier == N("BinModifier", <<N("GroupModifiers", <<>>)>>)

Bin(l, op, mod, r) == N("Expr", <<N("BinaryExpr", <<l, Sp, OpTok(op), Sp, mod, r>>)>>)
\* The right operand not typed yet.
BinPartial(l, op) == N("Expr", <<N("BinaryExpr", <<l, Sp, OpTok(op), NoModifier>>)>>)

Operands ==
  Atoms \cup {FnCall("Time"), FnCall("Rate"), FnCall("Clamp"), Paren(NumberLit),
              Bin(NumberLit, "Add", NoModifier, NumberLit),
              Bin(VecSel(<<"a">>), "Add", NoModifier, NumberLit)}

BinaryTypes ==
  {Bin(l, "Add", NoModifier, r) : l \in Operands, r \in Operands}
    \cup {BinPartial(l, "Add") : l \in Operands}

\* Modifiers
LabelNames == {<<"f", "o", "o">>, <<"b", "a", "r">>}

LabelLists == UNION {[1..n -> LabelNames] : n \in 0..MaxLabels}

GroupingLabel(l) == N("GroupingLabel", <<Tok("LabelName", l)>>)

RECURSIVE GroupingLabelList(_)
GroupingLabelList(ls) ==
  IF Len(ls) = 1 THEN N("GroupingLabelList", <<GroupingLabel(ls[1])>>)
  ELSE N("GroupingLabelList",
         <<GroupingLabelList(SubSeq(ls, 1, Len(ls) - 1)), Gap(<<",">>), Sp,
           GroupingLabel(ls[Len(ls)])>>)

GroupingLabels(ls) ==
  IF Len(ls) = 0 THEN N("GroupingLabels", <<Gap(<<"(", ")">>)>>)
  ELSE N("GroupingLabels", <<Gap(<<"(">>), GroupingLabelList(ls), Gap(<<")">>)>>)

OnTok(o) ==
  IF o = "On" THEN Tok("On", <<"o", "n">>)
  ELSE Tok("Ignoring", <<"i", "g", "n", "o", "r", "i", "n", "g">>)

GroupTok(g) ==
  IF g = "GroupLeft" THEN Tok("GroupLeft", <<"g", "r", "o", "u", "p", "_", "l", "e", "f", "t">>)
  ELSE Tok("GroupRight", <<"g", "r", "o", "u", "p", "_", "r", "i", "g", "h", "t">>)

\* o: "none", "On" or "Ignoring", with the labels ml; g: "none", "GroupLeft" or
\* "GroupRight"; inc: whether a label list follows the grouping keyword, il.
Modifier(o, ml, g, inc, il) ==
  N("BinModifier",
    <<N("GroupModifiers",
        (IF o = "none" THEN <<>>
         ELSE <<N("OnOrIgnoring", <<OnTok(o), GroupingLabels(ml)>>), Sp>>)
        \o (IF g = "none" THEN <<>>
            ELSE <<GroupTok(g),
                   N("MaybeGroupingLabels", IF inc THEN <<GroupingLabels(il)>> ELSE <<>>),
                   Sp>>))>>)

Modifiers ==
  {Modifier(o, ml, g, inc, il) :
     o \in {"On", "Ignoring"}, ml \in LabelLists,
     g \in {"GroupLeft", "GroupRight"}, inc \in {TRUE}, il \in LabelLists}
  \cup {Modifier(o, ml, g, FALSE, <<>>) :
     o \in {"On", "Ignoring"}, ml \in LabelLists, g \in {"none", "GroupLeft", "GroupRight"}}
  \cup {Modifier("none", <<>>, g, TRUE, il) :
     g \in {"GroupLeft", "GroupRight"}, il \in LabelLists}
  \cup {Modifier("none", <<>>, g, FALSE, <<>>) : g \in {"none", "GroupLeft", "GroupRight"}}

\* One label in each list, for every operator.
SampleModifiers ==
  {Modifier(o, <<(<<"f", "o", "o">>)>>, g, inc, <<(<<"b", "a", "r">>)>>) :
     o \in {"none", "On", "Ignoring"}, g \in {"none", "GroupLeft", "GroupRight"},
     inc \in BOOLEAN}

\* Every modifier on +, and the sample modifiers on every operator: the labels
\* are read without looking at the operator.
BinaryModifiers ==
  {Bin(VecSel(<<"a">>), "Add", mod, VecSel(<<"b">>)) : mod \in Modifiers}
    \cup {Bin(VecSel(<<"a">>), op, mod, VecSel(<<"b">>)) : op \in Ops, mod \in SampleModifiers}

\* A binary expression whose left operand is a binary expression with
\* modifiers of its own.
InnerBinary ==
  Bin(VecSel(<<"a">>), "Add",
      Modifier("On", <<(<<"f", "o", "o">>)>>, "GroupRight", TRUE, <<(<<"b", "a", "r">>)>>),
      VecSel(<<"b">>))

BinaryNested ==
  {Bin(InnerBinary, op, mod, VecSel(<<"c">>)) :
     op \in {"Add", "And"},
     mod \in {NoModifier, Modifier("Ignoring", <<(<<"b", "a", "r">>)>>, "none", FALSE, <<>>)}}

Top(e) == N("PromQL", <<e>>)

Trees == {Top(e) : e \in Nested(MaxNest) \cup FunctionCalls \cup BinaryTypes
                         \cup BinaryModifiers \cup BinaryNested}

\* The tree of a re-entrancy session: 1 + on(foo) group_left(bar) clamp(),
\* a binary expression with both label lists and an operand of unknown function.
ReentrantTrees ==
  {Top(Bin(NumberLit, "Add",
           Modifier("On", <<(<<"f", "o", "o">>)>>, "GroupLeft", TRUE, <<(<<"b", "a", "r">>)>>),
           FnCall("Clamp")))}

----------------------------------------------------------------------------
(* The callers of the resolvers *)

RECURSIVE Paths(_)
Paths(node) ==
  {<<>>} \cup UNION {{<<i>> \o p : p \in Paths(node.children[i])} : i \in 1..Len(node.children)}

\* The argument null.
NullPath == <<0>>

RECURSIVE NodeAt(_, _)
NodeAt(node, path) ==
  IF path = NullPath THEN Null
  ELSE IF Len(path) = 0 THEN node
  ELSE NodeAt(node.children[Head(path)], Tail(path))

Targets == Paths(tree) \cup {NullPath}

Outcome(t) == IF t = TypeError THEN [threw |-> TypeError] ELSE [type |-> t]

GetTypeCall(p) ==
  /\ Len(returned) < callLimit
  /\ returned' = Append(returned,
       [op |-> "getType", node |-> p, result |-> Outcome(getType(NodeAt(tree, p))),
        reads |-> 0])
  /\ UNCHANGED <<tree, doc, promqlFunctions, heap, callLimit>>
  /\ UNCHANGED extensionVars

BuildVectorMatchingCall(p) ==
  /\ Len(returned) < callLimit
  /\ LET r == buildVectorMatching([doc |-> doc, heap |-> heap], NodeAt(tree, p)) IN
       /\ heap' = r.heap
       /\ returned' = Append(returned,
            [op |-> "buildVectorMatching", node |-> p, result |-> r.result,
             reads |-> r.reads])
  /\ UNCHANGED <<tree, doc, promqlFunctions, callLimit>>
  /\ UNCHANGED extensionVars

----------------------------------------------------------------------------
(* PromQLExtension *)

\* The object's fields.
This ==
  [complete |-> complete, lint |-> lint,
   enableCompletion |-> enableCompletion, enableLinter |-> enableLinter]

\* newCompleteStrategy(conf) and newLintStrategy() each make a new object;
\* n tells the objects apart.
newCompleteStrategy(n, conf) == [strategy |-> "complete", id |-> n, conf |-> conf]
newLintStrategy == [strategy |-> "lint", id |-> 1]

Confs == {"undefined", "remote"}

constructor ==
  [complete |-> newCompleteStrategy(1, "undefined"), lint |-> newLintStrategy,
   enableCompletion |-> TRUE, enableLinter |-> TRUE]

setComplete(this, n, conf) == [this EXCEPT !.complete = newCompleteStrategy(n, conf)]

\* activateCompletion writing the linter's flag.
activateCompletionWrongFlag(this, activate) == [this EXCEPT !.enableLinter = activate]

activateCompletion(this, activate) == [this EXCEPT !.enableCompletion = activate]

activateLinter(this, activate) == [this EXCEPT !.enableLinter = activate]

\* The autocomplete entry: a closure over this.  under is the strategy the
\* object held when the closure was made, which the closure does not keep.
completion(this) == [entry |-> "autocomplete", self |-> "this", under |-> this.complete]

\* The callback answering with the strategy of the time it was made.
autocompleteCaptured(entry, this) == entry.under

\* The callback: this.complete.promQL(context), read when the request comes.
autocomplete(entry, this) == this.complete

asExtension(this) ==
  <<[entry |-> "promQLSyntax"]>>
    \o (IF this.enableCompletion THEN <<completion(this)>> ELSE <<>>)
    \o (IF this.enableLinter THEN <<[entry |-> "linter", lint |-> this.lint]>> ELSE <<>>)

Assign(this) ==
  /\ complete' = this.complete
  /\ lint' = this.lint
  /\ enableCompletion' = this.enableCompletion
  /\ enableLinter' = this.enableLinter

SetComplete(conf) ==
  /\ installed.id <= MaxSetComplete
  /\ Assign(setComplete(This, installed.id + 1, conf))
  /\ installed' = newCompleteStrategy(installed.id + 1, conf)
  /\ UNCHANGED <<extensions, lastRequest, lastActivate>>
  /\ UNCHANGED resolverVars

ActivateCompletion(activate) ==
  /\ Assign(activateCompletion(This, activate))
  /\ lastActivate' = [lastActivate EXCEPT !.completion = activate]
  /\ UNCHANGED <<extensions, lastRequest, installed>>
  /\ UNCHANGED resolverVars

ActivateLinter(activate) ==
  /\ Assign(activateLinter(This, activate))
  /\ lastActivate' = [lastActivate EXCEPT !.linter = activate]
  /\ UNCHANGED <<extensions, lastRequest, installed>>
  /\ UNCHANGED resolverVars

AsExtension ==
  /\ Len(extensions) < MaxExtensions
  /\ extensions' = Append(extensions, asExtension(This))
  /\ UNCHANGED <<complete, lint, enableCompletion, enableLinter>>
  /\ UNCHANGED <<lastRequest, installed, lastActivate>>
  /\ UNCHANGED resolverVars

NoRequest == [extension |-> 0]

\* The editor asks extension i for completions.
Autocomplete(i) ==
  /\ \E j \in 1..Len(extensions[i]) :
       /\ extensions[i][j].entry = "autocomplete"
       /\ lastRequest' = [extension |-> i,
                          servedBy |-> autocomplete(extensions[i][j], This),
                          latest |-> installed]
  /\ UNCHANGED <<complete, lint, enableCompletion, enableLinter>>
  /\ UNCHANGED <<extensions, installed, lastActivate>>
  /\ UNCHANGED resolverVars

----------------------------------------------------------------------------
(* Specifications *)

InitExtension ==
  /\ complete = constructor.complete
  /\ lint = constructor.lint
  /\ enableCompletion = constructor.enableCompletion
  /\ enableLinter = constructor.enableLinter
  /\ extensions = <<>>
  /\ lastRequest = NoRequest
  /\ installed = constructor.complete
  /\ lastActivate = [completion |-> TRUE, linter |-> TRUE]

InitResolver(trees, limit) ==
  /\ \E raw \in trees : tree = Layout(raw, 0) /\ doc = RawDoc(raw)
  /\ promqlFunctions = PromQLFunctionTable
  /\ heap = <<>>
  /\ returned = <<>>
  /\ callLimit = limit

\* One resolver call on any node of any tree.
Init == InitResolver(Trees, 1) /\ InitExtension

Next ==
  \/ \E p \in Targets : GetTypeCall(p)
  \/ \E p \in Targets : BuildVectorMatchingCall(p)

Spec == Init /\ [][Next]_vars

\* Up to MaxCalls resolver calls, in any order, on one tree.
InitReentrant == InitResolver(ReentrantTrees, MaxCalls) /\ InitExtension

SpecReentrant == InitReentrant /\ [][Next]_vars

\* One PromQLExtension and the editor using what asExtension returned.
InitEditor == InitResolver({Top(NumberLit)}, 0) /\ InitExtension

NextEditor ==
  \/ \E conf \in Confs : SetComplete(conf)
  \/ \E activate \in BOOLEAN : ActivateCompletion(activate)
  \/ \E activate \in BOOLEAN : ActivateLinter(activate)
  \/ AsExtension
  \/ \E i \in 1..Len(extensions) : Autocomplete(i)

SpecEditor == InitEditor /\ [][NextEditor]_vars

----------------------------------------------------------------------------
(* What the properties read *)

\* The calls made so far.
Calls == {returned[i] : i \in 1..Len(returned)}
TypeCalls == {c \in Calls : c.op = "getType"}
MatchingCalls == {c \in Calls : c.op = "buildVectorMatching"}
Arg(c) == NodeAt(tree, c.node)
IsBinary(c) == Arg(c) # Null /\ Arg(c).kind = "BinaryExpr"

\* A returned record with its label lists read from the heap.
Deref(h, rec) ==
  [card |-> rec.card, matchingLabels |-> h[rec.matchingLabels],
   on |-> rec.on, include |-> h[rec.include]]

\* The nodes of a kind in a subtree, in document order.
RECURSIVE Descendants(_, _), DescendantsSeq(_, _)
Descendants(node, kind) ==
  (IF node.kind = kind THEN <<node>> ELSE <<>>) \o DescendantsSeq(node.children, kind)
DescendantsSeq(cs, kind) ==
  IF Len(cs) = 0 THEN <<>>
  ELSE Descendants(Head(cs), kind) \o DescendantsSeq(Tail(cs), kind)

\* The text the tokens of a subtree were read from.
RECURSIVE TextOf(_), TextOfSeq(_)
TextOf(node) == IF Len(node.children) = 0 THEN node.text ELSE TextOfSeq(node.children)
TextOfSeq(cs) == IF Len(cs) = 0 THEN <<>> ELSE TextOf(Head(cs)) \o TextOfSeq(Tail(cs))

\* The nodes of a kind under the modifier of binary expression b itself.
IsBinModifier(c) == c.kind = "BinModifier"
Under(b, kind) == DescendantsSeq(SelectSeq(b.children, IsBinModifier), kind)
Has(b, kind) == Len(Under(b, kind)) > 0
LabelTexts(nodes) == [i \in 1..Len(nodes) |-> TextOf(nodes[i])]
ExpectedMatching(b) == LabelTexts(DescendantsSeq(Under(b, "OnOrIgnoring"), "GroupingLabel"))
ExpectedInclude(b) == LabelTexts(DescendantsSeq(Under(b, "MaybeGroupingLabels"), "GroupingLabel"))
HasSetOperator(b) == \E i \in 1..Len(b.children) : b.children[i].kind \in {"And", "Or", "Unless"}

\* The kinds getType has a case for.
RuleKinds ==
  {"Expr", "AggregateExpr", "VectorSelector", "OffsetExpr", "StringLiteral", "NumberLiteral",
   "MatrixSelector", "SubqueryExpr", "ParenExpr", "UnaryExpr", "BinaryExpr", "FunctionCall"}

\* The kind of a FunctionCall node's first child's first child, "" if there is none.
CalledKind(n) ==
  IF Len(n.children) = 0 THEN ""
  ELSE IF Len(n.children[1].children) = 0 THEN ""
  ELSE n.children[1].children[1].kind

Foo == <<"f", "o", "o">>
Bar == <<"b", "a", "r">>

----------------------------------------------------------------------------
(* Claims *)

\* C1: getType is total: on every node of the tree, and on an absent node, it
\* returns one of the five ValueType tags without failing, and an absent node
\* or a node of a kind it has no rule for resolves to none.
C1_GetTypeTotal ==
  \A c \in TypeCalls :
    /\ c.result \in {[type |-> t] : t \in ValueType}
    /\ (Arg(c) = Null \/ Arg(c).kind \notin RuleKinds) => c.result = [type |-> "none"]

\* C2: every one of the 47 function identifiers of the grammar has a signature
\* whose return type is not none, and getType of a call of it is that return
\* type (rate -> vector, time -> scalar, scalar -> scalar).
C2_FunctionReturnType ==
  /\ Cardinality(functionName) = 47
  /\ \A id \in functionName :
       /\ getFunction(id) # Undefined
       /\ getFunction(id).returnType \in ValueType \ {"none"}
  /\ \A c \in TypeCalls :
       (Arg(c) # Null /\ Arg(c).kind = "FunctionCall" /\ CalledKind(Arg(c)) \in functionName)
         => /\ c.result = [type |-> promqlFunctions[CalledKind(Arg(c))].returnType]
            /\ c.result # [type |-> "none"]
            /\ CalledKind(Arg(c)) = "Rate" => c.result = [type |-> "vector"]
            /\ CalledKind(Arg(c)) \in {"Time", "Scalar"} => c.result = [type |-> "scalar"]

C2_Witness ==
  \E c \in TypeCalls :
    /\ Arg(c) # Null /\ Arg(c).kind = "FunctionCall" /\ CalledKind(Arg(c)) = "Time"
    /\ c.result = [type |-> "scalar"]

\* C3: getType of a BinaryExpr node is scalar if and only if its first and its
\* last child both resolve to scalar, it is vector in every other case, and it
\* is never matrix, string or none.
C3_BinaryScalarIffBoth ==
  \A c \in TypeCalls :
    IsBinary(c) =>
      LET both == /\ getType(firstChild(Arg(c))) = "scalar"
                  /\ getType(lastChild(Arg(c))) = "scalar"
      IN /\ (c.result = [type |-> "scalar"]) <=> both
         /\ ~both => c.result = [type |-> "vector"]
         /\ c.result \notin {[type |-> "matrix"], [type |-> "string"], [type |-> "none"]}

\* The rule of C3 on the binary expressions whose two operands resolve.
BinaryRuleWhenOperandsResolve ==
  \A c \in TypeCalls :
    (/\ IsBinary(c)
     /\ getType(firstChild(Arg(c))) \in ValueType
     /\ getType(lastChild(Arg(c))) \in ValueType)
      => LET both == /\ getType(firstChild(Arg(c))) = "scalar"
                     /\ getType(lastChild(Arg(c))) = "scalar"
         IN c.result = [type |-> IF both THEN "scalar" ELSE "vector"]

\* C4: the card of a BinaryExpr node is many-to-one with group_left, one-to-many
\* with group_right, and otherwise many-to-many if a direct child is And, Or or
\* Unless and one-to-one if not; so many-to-many needs a set operator and no
\* grouping modifier, and a grouping modifier wins over the set operator.
C4_Cardinality ==
  \A c \in MatchingCalls :
    IsBinary(c) =>
      LET b == Arg(c) IN
      /\ c.result.card =
           IF Has(b, "GroupLeft") THEN CardManyToOne
           ELSE IF Has(b, "GroupRight") THEN CardOneToMany
           ELSE IF HasSetOperator(b) THEN CardManyToMany
           ELSE CardOneToOne
      /\ c.result.card = CardManyToMany
           => HasSetOperator(b) /\ ~Has(b, "GroupLeft") /\ ~Has(b, "GroupRight")

\* a or b group_left
C4_Witness ==
  \E c \in MatchingCalls :
    /\ IsBinary(c)
    /\ \E i \in 1..Len(Arg(c).children) : Arg(c).children[i].kind = "Or"
    /\ Has(Arg(c), "GroupLeft")
    /\ ~Has(Arg(c), "OnOrIgnoring")
    /\ c.result.card = CardManyToOne

\* C5: on is true exactly when an On modifier is there; with On or Ignoring the
\* matching labels are the texts of the GroupingLabel nodes under that
\* modifier, in document order; with neither, on is false and there are none.
C5_MatchingLabels ==
  \A c \in MatchingCalls :
    IsBinary(c) =>
      LET b == Arg(c)
          r == Deref(heap, c.result)
      IN /\ r.on <=> Has(b, "On")
         /\ (Has(b, "On") \/ Has(b, "Ignoring")) => r.matchingLabels = ExpectedMatching(b)
         /\ ~(Has(b, "On") \/ Has(b, "Ignoring")) => (~r.on /\ r.matchingLabels = <<>>)

\* a + on(foo, bar) b
C5_Witness ==
  \E c \in MatchingCalls :
    /\ IsBinary(c)
    /\ c.result.on
    /\ heap[c.result.matchingLabels] = <<Foo, Bar>>
    /\ c.result.card = CardOneToOne
    /\ c.reads = 2

\* C6: with group_left or group_right the include labels are the texts of the
\* GroupingLabel nodes under MaybeGroupingLabels, in document order; with
\* neither there are none; they are a list of their own, apart from the
\* matching labels, and a non-empty include list has card many-to-one or
\* one-to-many.
C6_IncludeLabels ==
  \A c \in MatchingCalls :
    IsBinary(c) =>
      LET b == Arg(c)
          r == Deref(heap, c.result)
      IN /\ (Has(b, "GroupLeft") \/ Has(b, "GroupRight")) => r.include = ExpectedInclude(b)
         /\ ~(Has(b, "GroupLeft") \/ Has(b, "GroupRight")) => r.include = <<>>
         /\ c.result.include # c.result.matchingLabels
         /\ r.include # <<>> => r.card \in {CardManyToOne, CardOneToMany}

\* a + on(foo) group_left(bar, foo) b
C6_Witness ==
  \E c \in MatchingCalls :
    /\ IsBinary(c)
    /\ c.result.on
    /\ heap[c.result.matchingLabels] = <<Foo>>
    /\ heap[c.result.include] = <<Bar, Foo>>
    /\ c.result.card = CardManyToOne

\* C7: buildVectorMatching returns null, without reading the document and
\* without creating anything, when the node is absent or not a BinaryExpr, and
\* a record for every BinaryExpr node.
C7_NullUnlessBinary ==
  \A c \in MatchingCalls :
    /\ ~IsBinary(c) => (c.result = NullMatching /\ c.reads = 0 /\ heap = <<>>)
    /\ IsBinary(c) =>
         /\ c.result # NullMatching
         /\ c.result.card \in {CardOneToOne, CardManyToOne, CardOneToMany, CardManyToMany}

\* A node with modifiers below it that is not the BinaryExpr: its Expr parent.
C7_Witness ==
  \E c \in MatchingCalls :
    /\ Arg(c) # Null
    /\ Arg(c).kind = "Expr"
    /\ Len(Descendants(Arg(c), "GroupLeft")) > 0
    /\ c.result = NullMatching

\* The results returned so far, against a lone call each.
C8_Results ==
  /\ \A c \in TypeCalls : c.result = Outcome(getType(Arg(c)))
  /\ \A c \in MatchingCalls :
       LET alone == buildVectorMatching([doc |-> doc, heap |-> <<>>], Arg(c)) IN
       IF alone.result = NullMatching THEN c.result = NullMatching
       ELSE /\ c.result # NullMatching
            /\ Deref(heap, c.result) = Deref(alone.heap, alone.result)
  /\ \A i, j \in 1..Len(returned) :
       (/\ i # j
        /\ returned[i].op = "buildVectorMatching" /\ returned[i].result # NullMatching
        /\ returned[j].op = "buildVectorMatching" /\ returned[j].result # NullMatching)
         => {returned[i].result.matchingLabels, returned[i].result.include}
              \cap {returned[j].result.matchingLabels, returned[j].result.include} = {}
  /\ promqlFunctions = PromQLFunctionTable

\* C8: however the calls are interleaved, each one returned what it returns
\* when it is the only call made on that node and text; no two returned
\* records share a label list; and no call changes the function table, the
\* tree or the text.
C8_NoHiddenState ==
  []C8_Results /\ [][UNCHANGED <<promqlFunctions, tree, doc>>]_vars

\* Two calls on the same binary expression, both with labels.
C8_Witness ==
  /\ Len(returned) = 2
  /\ \A i \in 1..2 :
       /\ returned[i].op = "buildVectorMatching"
       /\ returned[i].result # NullMatching
       /\ heap[returned[i].result.matchingLabels] = <<Foo>>
       /\ heap[returned[i].result.include] = <<Bar>>
  /\ returned[1].node = returned[2].node

HasEntry(e, kind) == \E j \in 1..Len(e) : e[j].entry = kind
EntryKinds(e) == [j \in 1..Len(e) |-> e[j].entry]

\* C9: every completion request, through any extension asExtension has
\* returned, is served by the strategy the most recent setComplete installed
\* (the constructor's if there was none), and the lint strategy stays the one
\* the constructor created.
C9_HotSwap ==
  /\ lastRequest # NoRequest => lastRequest.servedBy = lastRequest.latest
  /\ complete = installed
  /\ lint = newLintStrategy
  /\ \A i \in 1..Len(extensions) : \A j \in 1..Len(extensions[i]) :
       extensions[i][j].entry = "linter" => extensions[i][j].lint = newLintStrategy

\* A request through an extension built before the latest setComplete.
C9_Witness ==
  /\ lastRequest # NoRequest
  /\ lastRequest.servedBy.id = 3
  /\ \E j \in 1..Len(extensions[lastRequest.extension]) :
       /\ extensions[lastRequest.extension][j].entry = "autocomplete"
       /\ extensions[lastRequest.extension][j].under.id = 1

\* The entries of every returned list, in order, and the flags against the
\* last arguments given.
C10_Shape ==
  /\ \A i \in 1..Len(extensions) :
       EntryKinds(extensions[i]) \in
         {<<"promQLSyntax">>, <<"promQLSyntax", "autocomplete">>, <<"promQLSyntax", "linter">>,
          <<"promQLSyntax", "autocomplete", "linter">>}
  /\ enableCompletion = lastActivate.completion
  /\ enableLinter = lastActivate.linter

\* What one step may change.
C10_Step ==
  /\ extensions' # extensions =>
       /\ HasEntry(extensions'[Len(extensions')], "autocomplete") <=> lastActivate.completion
       /\ HasEntry(extensions'[Len(extensions')], "linter") <=> lastActivate.linter
       /\ UNCHANGED <<complete, lint, enableCompletion, enableLinter>>
  /\ lastActivate'.completion # lastActivate.completion =>
       /\ enableCompletion' = lastActivate'.completion
       /\ UNCHANGED <<complete, lint, enableLinter>>
  /\ lastActivate'.linter # lastActivate.linter =>
       /\ enableLinter' = lastActivate'.linter
       /\ UNCHANGED <<complete, lint, enableCompletion>>
  /\ installed' # installed => UNCHANGED <<lint, enableCompletion, enableLinter>>

\* C10: what asExtension returns starts with the syntax, holds the autocomplete
\* entry exactly when the last activateCompletion argument was true (true if
\* none), and the linter entry, after it, exactly when the last activateLinter
\* argument was true (true if none); each method changes only its own field,
\* and asExtension none.
C10_ExtensionList == []C10_Shape /\ [][C10_Step]_vars

\* Completion off, the linter on, after a setComplete.
C10_Witness ==
  /\ installed.id = 2
  /\ ~lastActivate.completion /\ lastActivate.linter
  /\ \E i \in 1..Len(extensions) : EntryKinds(extensions[i]) = <<"promQLSyntax", "linter">>

====
